---------------------------- MODULE Spec2Model ----------------------------
(***************************************************************************)
(* The guessing-game experiment of run_game.py, run_simulation.py and      *)
(* baseline.py: the experiment loop, play_single_game with its REPAIR      *)
(* sub-loop, the reply tests of each script and the attempt histogram.     *)
(*                                                                         *)
(* A text is a sequence of one-character strings; the two fixed prompts    *)
(* and the setup acknowledgement are texts of one token each.              *)
(***************************************************************************)
EXTENDS Integers, Sequences, FiniteSets

(***************************************************************************)
(* Bounds of the model.                                                    *)
(***************************************************************************)
MaxRange == 2      \* NUMBER_RANGE is drawn from 1..MaxRange
MaxGames == 2      \* NUM_GAMES is drawn from 1..MaxGames
MaxSummaryRange == 3  \* NUMBER_RANGE of the summaries explored on their own
MaxSummaryGames == 4  \* NUM_GAMES of the summaries explored on their own
MaxSeconds == 2       \* the seconds at which records are written
MaxRepairs == 2    \* REPAIR iterations explored per game (the code has no cap)

Scripts == {"run_game", "run_simulation", "baseline"}

(***************************************************************************)
(* Texts.                                                                  *)
(***************************************************************************)
T_correct == <<"c", "o", "r", "r", "e", "c", "t">>
T_not_correct == <<"n", "o", "t", " ">> \o T_correct
T_Correct_padded == <<" ", "C", "o", "r", "r", "e", "c", "t", " ">>
T_Not_Correct == <<"N", "o", "t", " ", "C", "o", "r", "r", "e", "c", "t">>
T_correct_bang == T_correct \o <<"!">>
T_not_correct_nl == T_not_correct \o <<"\n">>
T_okay == <<"Okay, I have a number.">>
T_setup == <<"Let's play a game!">>
T_correction == <<"Please answer with the exact string 'correct' if I guessed right or the exact string 'not correct' if I guessed wrong">>

\* Python's None, as returned by baseline.py's call_openai_api on a failure and
\* by play_single_game on exhaustion.
NoneText == <<"<None>">>
None == 0 - 1

\* A name that is not bound yet (reading it raises NameError).
Unbound == 0 - 2

\* No result record has been created.
NoResults == [none |-> TRUE]

\* The values of API_PROVIDER explored: the four the scripts name and one other.
Providers == {"openai", "anthropic", "google", "control", "mistral"}

\* What os.environ.get returns for the key of the selected provider: None, an
\* empty string or a key.
Credentials == {"unset", "empty", "set"}

\* What the responder may say to a guess or a correction: the two exact strings
\* and one other text, or these and variants in case, padding and punctuation.
CoreReplies == {T_correct, T_not_correct, T_correct_bang}
Replies ==
  CoreReplies \cup {T_Correct_padded, T_Not_Correct, T_not_correct_nl}

\* What the responder may say to the setup turn.
SetupReplies == {T_okay, T_correct, T_not_correct}

(***************************************************************************)
(* str.lower(), str.strip(), the `in` test on strings, str(int).           *)
(***************************************************************************)
LowerChar(ch) ==
  CASE ch = "C" -> "c"
    [] ch = "N" -> "n"
    [] ch = "O" -> "o"
    [] ch = "R" -> "r"
    [] ch = "E" -> "e"
    [] ch = "T" -> "t"
    [] OTHER -> ch

lower(s) == [i \in 1..Len(s) |-> LowerChar(s[i])]

IsSpace(ch) == ch \in {" ", "\t", "\n", "\r"}

RECURSIVE lstrip(_)
lstrip(s) == IF s # <<>> /\ IsSpace(Head(s)) THEN lstrip(Tail(s)) ELSE s

RECURSIVE rstrip(_)
rstrip(s) ==
  IF s # <<>> /\ IsSpace(s[Len(s)]) THEN rstrip(SubSeq(s, 1, Len(s) - 1)) ELSE s

strip(s) == rstrip(lstrip(s))

Contains(sub, s) ==
  \E i \in 0..(Len(s) - Len(sub)) : SubSeq(s, i + 1, i + Len(sub)) = sub

Digits == <<"0", "1", "2", "3", "4", "5", "6", "7", "8", "9">>

RECURSIVE str(_)
str(n) ==
  IF n < 10 THEN <<Digits[n + 1]>>
  ELSE str(n \div 10) \o <<Digits[(n % 10) + 1]>>

(***************************************************************************)
(* The reply tests of each script.                                         *)
(***************************************************************************)
\* response_lower: run_game.py and run_simulation.py lower and strip; baseline.py
\* only lowers.
Normalized(s, r) == IF s = "baseline" THEN lower(r) ELSE strip(lower(r))

\* Mutant: the reply test by substring containment.
IsValid_substring(s, r) == Contains(T_correct, Normalized(s, r))

\* The REPAIR loop is left (or not entered) when this holds.
IsValid(s, r) == Normalized(s, r) \in {T_correct, T_not_correct}

\* Mutant: baseline.py's success test without the exclusion of 'not correct'.
IsCorrect_noExclusion(s, r) ==
  IF s = "baseline"
  THEN Contains(T_correct, lower(r))
  ELSE Normalized(s, r) = T_correct

\* The success test after the REPAIR loop.
IsCorrect(s, r) ==
  IF s = "baseline"
  THEN Contains(T_correct, lower(r)) /\ ~Contains(T_not_correct, lower(r))
  ELSE Normalized(s, r) = T_correct

(***************************************************************************)
(* State.                                                                  *)
(***************************************************************************)
VARIABLES
  script,           \* which driver script runs
  API_PROVIDER,     \* configuration (baseline.py: always the OpenAI client)
  credential,       \* os.environ.get of the selected provider's key
  vocabulary,       \* the texts the responder of this run may reply with
  NUMBER_RANGE,     \* configuration
  NUM_GAMES,        \* configuration
  pc,               \* position of the script
  game,             \* loop variable of the experiment loop (0 before the loop)
  attempt_counts,   \* the histogram, index i = attempt i (Python index i-1)
  attempts_needed,  \* what play_single_game returned
  conversation,     \* local of play_single_game
  guess_sequence,   \* local of play_single_game
  attempts,         \* local of play_single_game
  response,         \* local of play_single_game
  CONTROL_NUMBER,   \* global of run_game.py, set by the control responder
  local_CONTROL_NUMBER, \* local of run_game.py's play_single_game
  cumulative_sum,        \* results summary
  cumulative_percentage, \* results summary
  results,               \* the result record written at the end
  store,                 \* the files of the results directory
  loaded,                \* plot tool: the records load_results returned
  per_attempt_pct,       \* plot tool: the percentages plotted, per record
  calls,            \* gateway calls made in this game (history)
  repairs,          \* REPAIR iterations made in this game (history)
  outcomes          \* results of the games that returned so far (history)

vars ==
  <<script, API_PROVIDER, credential, vocabulary, NUMBER_RANGE, NUM_GAMES, pc,
    game, attempt_counts, attempts_needed, conversation, guess_sequence,
    attempts, response, CONTROL_NUMBER, local_CONTROL_NUMBER, cumulative_sum,
    cumulative_percentage, results, store, loaded, per_attempt_pct, calls,
    repairs, outcomes>>

config ==
  <<script, API_PROVIDER, credential, vocabulary, NUMBER_RANGE, NUM_GAMES>>
summary == <<cumulative_sum, cumulative_percentage, results, store>>
plot == <<loaded, per_attempt_pct>>
locals ==
  <<conversation, guess_sequence, attempts, response, CONTROL_NUMBER,
    local_CONTROL_NUMBER, calls, repairs>>

Turn(role, content) == [role |-> role, content |-> content]

\* random.shuffle of list(range(1, NUMBER_RANGE + 1)): any permutation.
Shuffles(n) ==
  {p \in [1..n -> 1..n] : \A i, j \in 1..n : i # j => p[i] # p[j]}

\* Whether a gateway call that fails raises out of the script: call_api re-raises,
\* baseline.py's call_openai_api prints and returns None.
GatewayRaises(s) == s # "baseline"

\* The value of API_PROVIDER as the script is written (baseline.py has none:
\* it talks to OpenAI).
DefaultProvider(s) ==
  CASE s = "run_game" -> "anthropic"
    [] s = "run_simulation" -> "anthropic"
    [] s = "baseline" -> "openai"

\* A run is one script with its configuration and a responder. Runs of one game
\* face a responder that may use every text of Replies; runs of several games
\* face one that uses the texts of CoreReplies. The provider is the one the
\* script is written with or the control responder; the other values of
\* API_PROVIDER are explored in runs of one game.
Init ==
  /\ script \in Scripts
  /\ API_PROVIDER \in (IF script = "baseline" THEN {"openai"} ELSE Providers)
  /\ credential \in Credentials
  /\ NUMBER_RANGE \in 1..MaxRange
  /\ \/ /\ vocabulary = Replies
        /\ NUM_GAMES = 1
        /\ API_PROVIDER = DefaultProvider(script)
     \/ /\ vocabulary = CoreReplies
        /\ NUM_GAMES \in 1..MaxGames
        /\ API_PROVIDER \in {DefaultProvider(script), "control"}
     \/ /\ vocabulary = CoreReplies
        /\ NUM_GAMES = 1
        /\ API_PROVIDER \notin {DefaultProvider(script), "control"}
  /\ pc = "config"
  /\ game = 0
  /\ attempt_counts = <<>>
  /\ attempts_needed = None
  /\ conversation = <<>>
  /\ guess_sequence = <<>>
  /\ attempts = 0
  /\ response = NoneText
  /\ CONTROL_NUMBER = Unbound
  /\ local_CONTROL_NUMBER = Unbound
  /\ cumulative_sum = 0
  /\ cumulative_percentage = <<>>
  /\ results = NoResults
  /\ loaded = <<>>
  /\ per_attempt_pct = <<>>
  /\ store = {}
  /\ calls = 0
  /\ repairs = 0
  /\ outcomes = <<>>

(***************************************************************************)
(* The provider configuration at the top of the script: an unknown         *)
(* provider or a missing key raises ValueError; otherwise the client is    *)
(* built and attempt_counts = [0] * NUMBER_RANGE is created.               *)
(***************************************************************************)
KnownProviders(s) ==
  CASE s = "run_game" -> {"openai", "anthropic", "google", "control"}
    [] s = "run_simulation" -> {"openai", "anthropic"}
    [] s = "baseline" -> {"openai"}

NeedsCredential(p) == p \in {"openai", "anthropic", "google"}

\* Mutant: the key is not tested.
CredentialOk_untested(p, c) == TRUE

\* `if not api_key`: None and the empty string are both falsy.
CredentialOk(p, c) == NeedsCredential(p) => c = "set"

Startup ==
  /\ pc = "config"
  /\ IF API_PROVIDER \in KnownProviders(script)
        /\ CredentialOk(API_PROVIDER, credential)
     THEN /\ attempt_counts' = [i \in 1..NUMBER_RANGE |-> 0]
          /\ pc' = "loop"
     ELSE /\ pc' = "config_error"
          /\ UNCHANGED attempt_counts
  /\ UNCHANGED <<config, plot, summary, game, attempts_needed, locals, outcomes>>

\* Mutant: the conversation of the previous game is carried into the next.
StartGame_keepsConversation ==
  /\ pc = "loop"
  /\ game < NUM_GAMES
  /\ game' = game + 1
  /\ conversation' = Append(conversation, [role |-> "user", content |-> T_setup])
  /\ guess_sequence' = <<>>
  /\ attempts' = 0
  /\ response' = NoneText
  /\ local_CONTROL_NUMBER' = Unbound
  /\ calls' = 0
  /\ repairs' = 0
  /\ pc' = "setup"
  /\ UNCHANGED <<config, plot, summary, attempt_counts, attempts_needed,
                 CONTROL_NUMBER, outcomes>>

(***************************************************************************)
(* The experiment loop starts the next game: play_single_game is entered   *)
(* and builds the conversation holding the setup turn.                     *)
(***************************************************************************)
StartGame ==
  /\ pc = "loop"
  /\ game < NUM_GAMES
  /\ game' = game + 1
  /\ conversation' = <<Turn("user", T_setup)>>
  /\ guess_sequence' = <<>>
  /\ attempts' = 0
  /\ response' = NoneText
  /\ local_CONTROL_NUMBER' = Unbound
  /\ calls' = 0
  /\ repairs' = 0
  /\ pc' = "setup"
  /\ UNCHANGED <<config, plot, summary, attempt_counts, attempts_needed,
                 CONTROL_NUMBER, outcomes>>

(***************************************************************************)
(* call_api with API_PROVIDER = "control": the stand-in responder. It      *)
(* reads the most recent user turn; on the setup prompt it draws a new     *)
(* secret into the global CONTROL_NUMBER, on a number it compares, on      *)
(* anything else it answers 'not correct'.                                 *)
(***************************************************************************)
IsUser(t) == t.role = "user"

\* msg["content"].strip() of the most recent user turn, NoneText if none.
LastUser(conv) ==
  LET u == SelectSeq(conv, IsUser)
  IN  IF u = <<>> THEN NoneText ELSE strip(u[Len(u)].content)

DigitValue(ch) == (CHOOSE i \in 1..10 : Digits[i] = ch) - 1

IsNumeric(t) ==
  /\ t # <<>>
  /\ \A i \in 1..Len(t) : \E d \in 1..10 : Digits[d] = t[i]

RECURSIVE int(_)
int(t) ==
  IF Len(t) = 1 THEN DigitValue(t[1])
  ELSE 10 * int(SubSeq(t, 1, Len(t) - 1)) + DigitValue(t[Len(t)])

\* "Let's play a game!" in last_user
IsSetupText(t) == \E i \in 1..Len(t) : t[i] = T_setup[1]

ControlOutcomes(conv) ==
  LET last == LastUser(conv)
  IN  IF last = NoneText
      THEN {[reply |-> T_not_correct, number |-> CONTROL_NUMBER]}
      ELSE IF IsSetupText(last)
      THEN {[reply |-> T_okay, number |-> n] : n \in 1..NUMBER_RANGE}
      ELSE IF ~IsNumeric(last)
      THEN {[reply |-> T_not_correct, number |-> CONTROL_NUMBER]}
      ELSE {[reply |-> IF int(last) = CONTROL_NUMBER
                       THEN T_correct ELSE T_not_correct,
             number |-> CONTROL_NUMBER]}

(***************************************************************************)
(* The setup call, the shuffle and attempts = 0.                           *)
(***************************************************************************)
\* Mutant: the setup reply is read as the reply to a guess.
SetupOk_classified(r) ==
  /\ conversation' = Append(conversation, [role |-> "assistant", content |-> r])
  /\ \E p \in Shuffles(NUMBER_RANGE) : guess_sequence' = p
  /\ attempts' = 0
  /\ response' = r
  /\ pc' = "valid"

\* Mutant: the setup reply is not appended to the conversation.
SetupOk_dropsReply(r) ==
  /\ conversation' = conversation
  /\ \E p \in Shuffles(NUMBER_RANGE) : guess_sequence' = p
  /\ attempts' = 0
  /\ pc' = "while"
  /\ UNCHANGED response

SetupOk(r) ==
  /\ conversation' = Append(conversation, Turn("assistant", r))
  /\ \E p \in Shuffles(NUMBER_RANGE) : guess_sequence' = p
  /\ attempts' = 0
  /\ pc' = "while"
  /\ UNCHANGED response

SetupFails ==
  IF GatewayRaises(script)
  THEN /\ pc' = "crashed"
       /\ UNCHANGED <<conversation, guess_sequence, attempts, response>>
  ELSE SetupOk(NoneText)

Setup ==
  /\ pc = "setup"
  /\ calls' = calls + 1
  /\ IF API_PROVIDER = "control"
     THEN \E o \in ControlOutcomes(conversation) :
            SetupOk(o.reply) /\ CONTROL_NUMBER' = o.number
     ELSE /\ \/ \E r \in SetupReplies : SetupOk(r)
             \/ SetupFails
          /\ UNCHANGED CONTROL_NUMBER
  /\ UNCHANGED <<config, plot, summary, game, attempt_counts, attempts_needed,
                 local_CONTROL_NUMBER, repairs, outcomes>>

(***************************************************************************)
(* One pass of the guess loop up to the reply: the loop test holds, the    *)
(* next guess is taken, attempts is incremented, the guess is sent.        *)
(***************************************************************************)
\* Mutant: the loop stops one guess early.
LoopTest_short(a, seq) == a < Len(seq) - 1

\* while attempts < len(guess_sequence)
LoopTest(a, seq) == a < Len(seq)

\* Mutant: the index into the guess sequence does not advance.
CurrentGuess_first(seq, a) == seq[1]

\* guess_sequence[attempts], a 0-based Python index
CurrentGuess(seq, a) == seq[a + 1]

GuessOk(r) ==
  /\ conversation' =
       conversation \o <<Turn("user", str(CurrentGuess(guess_sequence, attempts))),
                         Turn("assistant", r)>>
  /\ response' = r
  /\ pc' = "valid"

\* Mutant: the exception of a failed guess call is caught in the game, which
\* returns None, and the experiment goes on.
GuessFails_caught ==
  IF GatewayRaises(script)
  THEN /\ conversation' =
            Append(conversation,
                   Turn("user", str(CurrentGuess(guess_sequence, attempts))))
       /\ pc' = "while"
       /\ UNCHANGED response
  ELSE GuessOk(NoneText)

GuessFails ==
  IF GatewayRaises(script)
  THEN /\ conversation' =
            Append(conversation,
                   Turn("user", str(CurrentGuess(guess_sequence, attempts))))
       /\ pc' = "crashed"
       /\ UNCHANGED response
  ELSE GuessOk(NoneText)

\* The conversation as passed to the gateway for this guess.
GuessSent ==
  Append(conversation, Turn("user", str(CurrentGuess(guess_sequence, attempts))))

\* Mutant: the assignment at the top of the loop body binds the module global.
Guess_clearsGlobal ==
  /\ pc = "while"
  /\ LoopTest(attempts, guess_sequence)
  /\ attempts' = attempts + 1
  /\ UNCHANGED local_CONTROL_NUMBER
  /\ calls' = calls + 1
  /\ IF API_PROVIDER = "control"
     THEN GuessOk(T_not_correct) /\ CONTROL_NUMBER' = None
     ELSE /\ \/ \E r \in vocabulary : GuessOk(r)
             \/ GuessFails
          /\ UNCHANGED CONTROL_NUMBER
  /\ UNCHANGED <<config, plot, summary, game, attempt_counts, attempts_needed,
                 guess_sequence, repairs, outcomes>>

Guess ==
  /\ pc = "while"
  /\ LoopTest(attempts, guess_sequence)
  /\ attempts' = attempts + 1
  /\ local_CONTROL_NUMBER' =
       IF script = "run_game" THEN None ELSE local_CONTROL_NUMBER
  /\ calls' = calls + 1
  /\ IF API_PROVIDER = "control"
     THEN \E o \in ControlOutcomes(GuessSent) :
            GuessOk(o.reply) /\ CONTROL_NUMBER' = o.number
     ELSE /\ \/ \E r \in vocabulary : GuessOk(r)
             \/ GuessFails
          /\ UNCHANGED CONTROL_NUMBER
  /\ UNCHANGED <<config, plot, summary, game, attempt_counts, attempts_needed,
                 guess_sequence, repairs, outcomes>>

(***************************************************************************)
(* The loop test fails: every number was tried, None is returned.          *)
(***************************************************************************)
Exhausted ==
  /\ pc = "while"
  /\ ~LoopTest(attempts, guess_sequence)
  /\ attempts_needed' = None
  /\ outcomes' = Append(outcomes, None)
  /\ pc' = "record"
  /\ UNCHANGED <<config, plot, summary, game, attempt_counts, locals>>

(***************************************************************************)
(* baseline.py: response is None after a failed call, response.lower()     *)
(* raises AttributeError.                                                  *)
(***************************************************************************)
LowerOfNone ==
  /\ pc = "valid"
  /\ response = NoneText
  /\ pc' = "crashed"
  /\ UNCHANGED <<config, plot, summary, game, attempt_counts, attempts_needed, locals, outcomes>>

(***************************************************************************)
(* One REPAIR iteration: the reply is not one of the two strings, the      *)
(* correction turn is appended, the gateway is called, the reply appended. *)
(***************************************************************************)
RepairOk(r) ==
  /\ conversation' =
       conversation \o <<Turn("user", T_correction), Turn("assistant", r)>>
  /\ response' = r
  /\ pc' = "valid"

RepairFails ==
  IF GatewayRaises(script)
  THEN /\ conversation' = Append(conversation, Turn("user", T_correction))
       /\ pc' = "crashed"
       /\ UNCHANGED response
  ELSE RepairOk(NoneText)

Repair ==
  /\ pc = "valid"
  /\ response # NoneText
  /\ ~IsValid(script, response)
  /\ repairs < MaxRepairs
  /\ repairs' = repairs + 1
  /\ calls' = calls + 1
  /\ IF API_PROVIDER = "control"
     THEN \E o \in ControlOutcomes(
                      Append(conversation, Turn("user", T_correction))) :
            RepairOk(o.reply) /\ CONTROL_NUMBER' = o.number
     ELSE /\ \/ \E r \in vocabulary : RepairOk(r)
             \/ RepairFails
          /\ UNCHANGED CONTROL_NUMBER
  /\ UNCHANGED <<config, plot, summary, game, attempt_counts, attempts_needed,
                 guess_sequence, attempts, local_CONTROL_NUMBER, outcomes>>

\* Mutant: the 0-based index of the guess is returned.
ReturnAttempts_zeroBased ==
  /\ pc = "valid"
  /\ response # NoneText
  /\ IsValid(script, response)
  /\ IsCorrect(script, response)
  /\ attempts_needed' = attempts - 1
  /\ outcomes' = Append(outcomes, attempts - 1)
  /\ pc' = "record"
  /\ UNCHANGED <<config, plot, summary, game, attempt_counts, locals>>

(***************************************************************************)
(* The REPAIR loop is over and the reply is the success string: return     *)
(* attempts.                                                               *)
(***************************************************************************)
ReturnAttempts ==
  /\ pc = "valid"
  /\ response # NoneText
  /\ IsValid(script, response)
  /\ IsCorrect(script, response)
  /\ attempts_needed' = attempts
  /\ outcomes' = Append(outcomes, attempts)
  /\ pc' = "record"
  /\ UNCHANGED <<config, plot, summary, game, attempt_counts, locals>>

\* Mutant: after a reply that is not the success string the driver waits in
\* place instead of going back to the loop test.
NextGuess_stalls ==
  /\ pc = "valid"
  /\ response # NoneText
  /\ IsValid(script, response)
  /\ ~IsCorrect(script, response)
  /\ pc' = "valid"
  /\ UNCHANGED <<config, plot, summary, game, attempt_counts, attempts_needed, locals, outcomes>>

\* Mutant: REPAIR is given up after one iteration and the next guess is made.
NextGuess_repairCapped ==
  /\ pc = "valid"
  /\ response # NoneText
  /\ \/ IsValid(script, response) /\ ~IsCorrect(script, response)
     \/ ~IsValid(script, response) /\ repairs >= 1
  /\ pc' = "while"
  /\ UNCHANGED <<config, plot, summary, game, attempt_counts, attempts_needed, locals, outcomes>>

(***************************************************************************)
(* The REPAIR loop is over and the reply is not the success string: back   *)
(* to the loop test.                                                       *)
(***************************************************************************)
NextGuess ==
  /\ pc = "valid"
  /\ response # NoneText
  /\ IsValid(script, response)
  /\ ~IsCorrect(script, response)
  /\ pc' = "while"
  /\ UNCHANGED <<config, plot, summary, game, attempt_counts, attempts_needed, locals, outcomes>>

(***************************************************************************)
(* The experiment loop records the result: attempt_counts[a - 1] += 1      *)
(* unless a is None. A Python list index j in -N..-1 names element j + N.  *)
(***************************************************************************)
PyIndexOk(j, n) == -n <= j /\ j < n
PyIndex(j, n) == IF j < 0 THEN j + n + 1 ELSE j + 1

\* Mutant: the last bucket is incremented whatever the attempt count.
Increment_last(counts, j) == [counts EXCEPT ![Len(counts)] = @ + 1]

\* Mutant: once a bucket is filled, every later game is counted in bucket 1.
Increment_afterFirst(counts, j) ==
  IF \E i \in 1..Len(counts) : counts[i] > 0
  THEN [counts EXCEPT ![1] = @ + 1]
  ELSE [counts EXCEPT ![PyIndex(j, Len(counts))] = @ + 1]

\* Mutant: the bucket is incremented by two.
Increment_twice(counts, j) ==
  [counts EXCEPT ![PyIndex(j, Len(counts))] = @ + 2]

Increment(counts, j) ==
  [counts EXCEPT ![PyIndex(j, Len(counts))] = @ + 1]

\* Mutant: a game that returned None stops the experiment loop.
Record_abortsOnNone ==
  /\ pc = "record"
  /\ IF attempts_needed # None
     THEN /\ attempt_counts' = Increment(attempt_counts, attempts_needed - 1)
          /\ pc' = "loop"
     ELSE /\ pc' = "crashed"
          /\ UNCHANGED attempt_counts
  /\ UNCHANGED <<config, plot, summary, game, attempts_needed, locals, outcomes>>

Record ==
  /\ pc = "record"
  /\ IF attempts_needed # None
     THEN IF PyIndexOk(attempts_needed - 1, Len(attempt_counts))
          THEN /\ attempt_counts' = Increment(attempt_counts, attempts_needed - 1)
               /\ pc' = "loop"
          ELSE /\ pc' = "crashed"
               /\ UNCHANGED attempt_counts
     ELSE /\ pc' = "loop"
          /\ UNCHANGED attempt_counts
  /\ UNCHANGED <<config, plot, summary, game, attempts_needed, locals, outcomes>>

(***************************************************************************)
(* The experiment loop is over.                                            *)
(***************************************************************************)
EndLoop ==
  /\ pc = "loop"
  /\ game = NUM_GAMES
  /\ pc' = "summary"
  /\ UNCHANGED <<config, plot, summary, game, attempt_counts, attempts_needed, locals, outcomes>>

(***************************************************************************)
(* The results summary: one pass of the loop over attempt_counts adds the  *)
(* count to cumulative_sum and appends (cumulative_sum / NUM_GAMES) * 100. *)
(* A percentage is kept as the exact fraction <<numerator, denominator>>.  *)
(***************************************************************************)
RECURSIVE SumSeq(_)
SumSeq(seq) == IF seq = <<>> THEN 0 ELSE Head(seq) + SumSeq(Tail(seq))

\* Mutant: the share is taken of the games that succeeded.
Percent_ofCompleted(c, n) == <<c * 100, SumSeq(attempt_counts)>>

\* (c / n) * 100
Percent(c, n) == <<c * 100, n>>

\* Mutant: the per-attempt percentage is appended in place of the cumulative
\* one.
SummaryStep_perAttempt ==
  /\ pc = "summary"
  /\ Len(cumulative_percentage) < Len(attempt_counts)
  /\ LET count == attempt_counts[Len(cumulative_percentage) + 1]
     IN  /\ cumulative_sum' = cumulative_sum + count
         /\ cumulative_percentage' =
              Append(cumulative_percentage, Percent(count, NUM_GAMES))
  /\ UNCHANGED <<config, plot, results, store, pc, game, attempt_counts,
                 attempts_needed, locals, outcomes>>

SummaryStep ==
  /\ pc = "summary"
  /\ Len(cumulative_percentage) < Len(attempt_counts)
  /\ LET count == attempt_counts[Len(cumulative_percentage) + 1]
     IN  /\ cumulative_sum' = cumulative_sum + count
         /\ cumulative_percentage' =
              Append(cumulative_percentage,
                     Percent(cumulative_sum + count, NUM_GAMES))
  /\ UNCHANGED <<config, plot, results, store, pc, game, attempt_counts,
                 attempts_needed, locals, outcomes>>

(***************************************************************************)
(* The result record written at the end of the run.                        *)
(***************************************************************************)
MODEL_NAME(s, p) ==
  CASE s = "baseline" -> "gpt-5-mini"
    [] s = "run_game" /\ p = "openai" -> "gpt-5-mini"
    [] s = "run_game" /\ p = "anthropic" -> "claude-sonnet-4-20250514"
    [] s = "run_game" /\ p = "google" -> "gemini-2.5-flash"
    [] s = "run_game" /\ p = "control" -> "control"
    [] s = "run_simulation" /\ p = "openai" -> "gpt-4o-mini"
    [] s = "run_simulation" /\ p = "anthropic" -> "claude-3-5-sonnet-20241022"

\* The seconds at which the records of the results directory were written,
\* and the second at which this run writes its own: the latest of them.
Seconds == 1..MaxSeconds
Now == MaxSeconds

\* Mutant: the time stamp has a resolution of two seconds.
Timestamp_coarse(t) == str((t + 1) \div 2)

\* datetime.now().strftime("%Y%m%d_%H%M%S"): the text of the second t, one
\* text per second.
Timestamp(t) == str(t)

\* The characters of the identifiers the scripts put into file names.
Chars(name) ==
  CASE name = "openai" ->
      <<"o", "p", "e", "n", "a", "i">>
    [] name = "anthropic" ->
      <<"a", "n", "t", "h", "r", "o", "p", "i", "c">>
    [] name = "google" ->
      <<"g", "o", "o", "g", "l", "e">>
    [] name = "control" ->
      <<"c", "o", "n", "t", "r", "o", "l">>
    [] name = "gpt-5-mini" ->
      <<"g", "p", "t", "-", "5", "-", "m", "i", "n", "i">>
    [] name = "claude-sonnet-4-20250514" ->
      <<"c", "l", "a", "u", "d", "e", "-", "s", "o", "n", "n", "e", "t",
        "-", "4", "-", "2", "0", "2", "5", "0", "5", "1", "4">>
    [] name = "gemini-2.5-flash" ->
      <<"g", "e", "m", "i", "n", "i", "-", "2", ".", "5", "-", "f", "l",
        "a", "s", "h">>
    [] name = "gpt-4o-mini" ->
      <<"g", "p", "t", "-", "4", "o", "-", "m", "i", "n", "i">>
    [] name = "claude-3-5-sonnet-20241022" ->
      <<"c", "l", "a", "u", "d", "e", "-", "3", "-", "5", "-", "s", "o",
        "n", "n", "e", "t", "-", "2", "0", "2", "4", "1", "0", "2", "2">>

\* str.replace(old, new) for one-character old and new
replace(text, old, new) ==
  [i \in 1..Len(text) |-> IF text[i] = old THEN new ELSE text[i]]

\* safe_model_name (baseline.py replaces '-' only)
SafeModelName(s, m) ==
  IF s = "baseline" THEN replace(Chars(m), "-", "_")
  ELSE replace(replace(Chars(m), "-", "_"), ".", "_")

\* filename (baseline.py has no provider part)
Filename(s, p, t) ==
  IF s = "baseline"
  THEN <<"results/results_">> \o SafeModelName(s, MODEL_NAME(s, p))
         \o <<"_">> \o Timestamp(t) \o <<".json">>
  ELSE <<"results/results_">> \o Chars(p) \o <<"_">>
         \o SafeModelName(s, MODEL_NAME(s, p))
         \o <<"_">> \o Timestamp(t) \o <<".json">>

\* A file of the results directory: its name, its content and, as history,
\* the run that wrote it.
File(name, content, s, p, t) ==
  [name |-> name, content |-> content,
   by |-> [script |-> s, provider |-> p, second |-> t]]

\* Mutant: open(filename, 'a'): what the file held is kept.
Written_kept(files, f) == files \cup {f}

\* open(filename, 'w'): the file is created, or truncated if it exists.
Written(files, f) == {g \in files : g.name # f.name} \cup {f}

ResultRecord(t) ==
  IF script = "baseline"
  THEN [model |-> MODEL_NAME(script, API_PROVIDER),
        timestamp |-> Timestamp(t),
        number_range |-> NUMBER_RANGE,
        num_games |-> NUM_GAMES,
        attempt_counts |-> attempt_counts,
        cumulative_percentage |-> cumulative_percentage]
  ELSE [api_provider |-> API_PROVIDER,
        model |-> MODEL_NAME(script, API_PROVIDER),
        timestamp |-> Timestamp(t),
        number_range |-> NUMBER_RANGE,
        num_games |-> NUM_GAMES,
        attempt_counts |-> attempt_counts,
        cumulative_percentage |-> cumulative_percentage,
        games_completed |-> SumSeq(attempt_counts),
        games_failed |-> NUM_GAMES - SumSeq(attempt_counts)]

\* Mutant: the record is written as soon as the experiment loop is over,
\* before the cumulative percentages are computed.
WriteResults_early ==
  /\ pc = "summary"
  /\ LET t == Now
     IN  /\ results' = ResultRecord(t)
         /\ store' =
              Written(store, File(Filename(script, API_PROVIDER, t),
                                  ResultRecord(t), script, API_PROVIDER, t))
  /\ pc' = IF Len(cumulative_percentage) = Len(attempt_counts)
           THEN "done" ELSE "summary"
  /\ UNCHANGED <<config, plot, cumulative_sum, cumulative_percentage, game,
                 attempt_counts, attempts_needed, locals, outcomes>>

WriteResults ==
  /\ pc = "summary"
  /\ Len(cumulative_percentage) = Len(attempt_counts)
  /\ LET t == Now
     IN  /\ results' = ResultRecord(t)
         /\ store' =
              Written(store, File(Filename(script, API_PROVIDER, t),
                                  ResultRecord(t), script, API_PROVIDER, t))
  /\ pc' = "done"
  /\ UNCHANGED <<config, plot, cumulative_sum, cumulative_percentage, game,
                 attempt_counts, attempts_needed, locals, outcomes>>

Next ==
  \/ Startup
  \/ StartGame
  \/ Setup
  \/ Guess
  \/ Exhausted
  \/ LowerOfNone
  \/ Repair
  \/ ReturnAttempts
  \/ NextGuess
  \/ Record
  \/ EndLoop
  \/ SummaryStep
  \/ WriteResults

Spec == Init /\ [][Next]_vars

(***************************************************************************)
(* The results summary on its own: the run starts where the experiment     *)
(* loop has ended, with the outcomes of the games drawn from every         *)
(* sequence the games can produce and attempt_counts holding their         *)
(* histogram. play_single_game has returned, its locals are gone. The      *)
(* control responder always finds its own number, so its games succeed.    *)
(***************************************************************************)
Histogram(outs, n) ==
  [i \in 1..n |-> Cardinality({k \in 1..Len(outs) : outs[k] = i})]

GameOutcomes(p, n) == IF p = "control" THEN 1..n ELSE (1..n) \cup {None}

InitSummary ==
  /\ script \in Scripts
  /\ API_PROVIDER \in KnownProviders(script)
  /\ credential \in {c \in Credentials : CredentialOk(API_PROVIDER, c)}
  /\ NUMBER_RANGE \in 1..MaxSummaryRange
  /\ NUM_GAMES \in 1..MaxSummaryGames
  /\ vocabulary = CoreReplies
  /\ pc = "summary"
  /\ game = NUM_GAMES
  /\ outcomes \in [1..NUM_GAMES -> GameOutcomes(API_PROVIDER, NUMBER_RANGE)]
  /\ attempt_counts = Histogram(outcomes, NUMBER_RANGE)
  /\ attempts_needed = outcomes[NUM_GAMES]
  /\ conversation = <<>>
  /\ guess_sequence = <<>>
  /\ attempts = 0
  /\ response = NoneText
  /\ CONTROL_NUMBER \in
       (IF API_PROVIDER = "control" THEN 1..NUMBER_RANGE ELSE {Unbound})
  /\ local_CONTROL_NUMBER = Unbound
  /\ cumulative_sum = 0
  /\ cumulative_percentage = <<>>
  /\ results = NoResults
  /\ loaded = <<>>
  /\ per_attempt_pct = <<>>
  /\ store = {}
  /\ calls = 0
  /\ repairs = 0

NextSummary ==
  \/ SummaryStep
  \/ WriteResults

SpecSummary == InitSummary /\ [][NextSummary]_vars

(***************************************************************************)
(* The results summary of a run that finds the record of an earlier run in *)
(* the results directory: a run of any of the scripts with any provider it *)
(* accepts, written at any second.                                         *)
(***************************************************************************)
EarlierRuns ==
  {r \in [script : Scripts, provider : Providers, second : Seconds] :
     r.provider \in KnownProviders(r.script)}

\* What an earlier run left in its file.
EarlierRecord(r) ==
  [model |-> MODEL_NAME(r.script, r.provider),
   timestamp |-> Timestamp(r.second)]

EarlierFile(r) ==
  File(Filename(r.script, r.provider, r.second), EarlierRecord(r),
       r.script, r.provider, r.second)

InitStore ==
  /\ script \in Scripts
  /\ API_PROVIDER \in KnownProviders(script)
  /\ credential \in {c \in Credentials : CredentialOk(API_PROVIDER, c)}
  /\ NUMBER_RANGE \in 1..MaxRange
  /\ NUM_GAMES = 1
  /\ vocabulary = CoreReplies
  /\ pc = "summary"
  /\ game = NUM_GAMES
  /\ outcomes \in [1..NUM_GAMES -> GameOutcomes(API_PROVIDER, NUMBER_RANGE)]
  /\ attempt_counts = Histogram(outcomes, NUMBER_RANGE)
  /\ attempts_needed = outcomes[NUM_GAMES]
  /\ conversation = <<>>
  /\ guess_sequence = <<>>
  /\ attempts = 0
  /\ response = NoneText
  /\ CONTROL_NUMBER \in
       (IF API_PROVIDER = "control" THEN 1..NUMBER_RANGE ELSE {Unbound})
  /\ local_CONTROL_NUMBER = Unbound
  /\ cumulative_sum = 0
  /\ cumulative_percentage = <<>>
  /\ results = NoResults
  /\ loaded = <<>>
  /\ per_attempt_pct = <<>>
  /\ \E r \in EarlierRuns : store = {EarlierFile(r)}
  /\ calls = 0
  /\ repairs = 0

SpecStore == InitStore /\ [][NextSummary]_vars

(***************************************************************************)
(* The histogram tools plot_histogram.py and plot_histograms.py: main      *)
(* loads the records of the results directory, prints the summary and      *)
(* computes the per-attempt percentages of each record for the bar chart.  *)
(* attempt_counts is stored as a list or, in older records, as a mapping   *)
(* from the attempt index (a string key) to the count.                     *)
(***************************************************************************)
PlotTools == {"plot_histogram", "plot_histograms"}

ListShaped(h) == [shape |-> "list", items |-> h]

MappingShaped(h) ==
  [shape |-> "dict",
   items |-> [i \in 1..Len(h) |-> [key |-> str(i), value |-> h[i]]]]

\* The histograms of g games over n attempt indices.
Histograms(n, g) == {h \in [1..n -> 0..g] : SumSeq(h) <= g}

\* The records a run of g games over 1..n may have left, in either shape,
\* with or without number_range.
StoredRecords(n, g) ==
  UNION {
    {[model |-> "gpt-5-mini", num_games |-> g, number_range |-> n,
      attempt_counts |-> ac,
      cumulative_percentage |->
        [i \in 1..n |-> Percent(SumSeq(SubSeq(h, 1, i)), g)]],
     [model |-> "gpt-5-mini", num_games |-> g,
      attempt_counts |-> ac,
      cumulative_percentage |->
        [i \in 1..n |-> Percent(SumSeq(SubSeq(h, 1, i)), g)]]} :
    <<h, ac>> \in
      {<<h, ListShaped(h)>> : h \in Histograms(n, g)}
        \cup {<<h, MappingShaped(h)>> : h \in Histograms(n, g)}}

MaxOf(S) == CHOOSE m \in S : \A x \in S : x <= m
MinOf(a, b) == IF a <= b THEN a ELSE b

\* _infer_range_from_result
InferRange(tool, rec) ==
  IF "number_range" \in DOMAIN rec THEN rec.number_range
  ELSE IF "attempt_counts" \in DOMAIN rec /\ rec.attempt_counts.shape = "list"
  THEN Len(rec.attempt_counts.items)
  ELSE IF "attempt_counts" \in DOMAIN rec
  THEN LET items == rec.attempt_counts.items
       IN  IF items # <<>> /\ \A i \in 1..Len(items) : IsNumeric(items[i].key)
           THEN MaxOf({int(items[i].key) : i \in 1..Len(items)})
           ELSE Len(items)
  ELSE IF tool = "plot_histograms" /\ "cumulative_percentage" \in DOMAIN rec
  THEN Len(rec.cumulative_percentage)
  ELSE 0

\* Mutant: the keys of a mapping are taken as 0-based indices.
CountsOf_zeroBased(ac, local_range) ==
  IF ac.shape = "list"
  THEN [i \in 1..local_range |->
          IF i <= Len(ac.items) THEN ac.items[i] ELSE 0]
  ELSE [i \in 1..local_range |->
          IF \E k \in 1..Len(ac.items) :
               IsNumeric(ac.items[k].key) /\ int(ac.items[k].key) = i - 1
          THEN LET k == CHOOSE k \in 1..Len(ac.items) :
                          /\ IsNumeric(ac.items[k].key)
                          /\ int(ac.items[k].key) = i - 1
               IN  ac.items[k].value
          ELSE 0]

\* counts of _attempt_percentages_for_result: the list trimmed or padded to
\* local_range, or the values of the mapping at idx = int(k) - 1
CountsOf(ac, local_range) ==
  IF ac.shape = "list"
  THEN [i \in 1..local_range |->
          IF i <= Len(ac.items) THEN ac.items[i] ELSE 0]
  ELSE [i \in 1..local_range |->
          IF \E k \in 1..Len(ac.items) :
               IsNumeric(ac.items[k].key) /\ int(ac.items[k].key) = i
          THEN LET k == CHOOSE k \in 1..Len(ac.items) :
                          /\ IsNumeric(ac.items[k].key)
                          /\ int(ac.items[k].key) = i
               IN  ac.items[k].value
          ELSE 0]

\* _attempt_percentages_for_result: a vector of length max_range
AttemptPercentages(tool, rec, max_range) ==
  LET num_games == IF rec.num_games = 0 THEN 1 ELSE rec.num_games
      local_range == InferRange(tool, rec)
      counts == CountsOf(rec.attempt_counts, local_range)
  IN  [i \in 1..max_range |->
         IF i <= MinOf(local_range, max_range)
         THEN Percent(counts[i], num_games)
         ELSE Percent(0, 1)]

\* print_summary of plot_histogram.py: sum(attempt_counts) adds the keys of a
\* mapping, which are strings, to 0 and raises TypeError.
SummaryRaises(tool, rec) ==
  /\ tool = "plot_histogram"
  /\ rec.num_games > 0
  /\ rec.attempt_counts.items # <<>>
  /\ rec.attempt_counts.shape = "dict"

InitPlot ==
  /\ script \in PlotTools
  /\ API_PROVIDER = "openai"
  /\ credential = "set"
  /\ NUMBER_RANGE \in 1..MaxRange
  /\ NUM_GAMES \in 1..MaxGames
  /\ vocabulary = CoreReplies
  /\ pc = "plot_load"
  /\ game = 0
  /\ outcomes = <<>>
  /\ attempt_counts = <<>>
  /\ attempts_needed = None
  /\ conversation = <<>>
  /\ guess_sequence = <<>>
  /\ attempts = 0
  /\ response = NoneText
  /\ CONTROL_NUMBER = Unbound
  /\ local_CONTROL_NUMBER = Unbound
  /\ cumulative_sum = 0
  /\ cumulative_percentage = <<>>
  /\ results = NoResults
  /\ loaded = <<>>
  /\ per_attempt_pct = <<>>
  /\ \E rec \in StoredRecords(NUMBER_RANGE, NUM_GAMES) :
       store = {File(Filename("baseline", "openai", Now), rec,
                     "baseline", "openai", Now)}
  /\ calls = 0
  /\ repairs = 0

LoadResults ==
  /\ pc = "plot_load"
  /\ \E order \in [1..Cardinality(store) -> store] :
       /\ \A i, j \in 1..Cardinality(store) : i # j => order[i] # order[j]
       /\ loaded' = [i \in 1..Cardinality(store) |-> order[i].content]
  /\ pc' = IF store = {} THEN "plot_done" ELSE "plot_summary"
  /\ UNCHANGED <<config, summary, per_attempt_pct, game, attempt_counts,
                 attempts_needed, locals, outcomes>>

PrintSummary ==
  /\ pc = "plot_summary"
  /\ pc' = IF \E i \in 1..Len(loaded) : SummaryRaises(script, loaded[i])
           THEN "plot_crashed" ELSE "plot_chart"
  /\ UNCHANGED <<config, summary, plot, game, attempt_counts,
                 attempts_needed, locals, outcomes>>

CreateHistogramPlot ==
  /\ pc = "plot_chart"
  /\ LET max_range ==
           MaxOf({InferRange(script, loaded[i]) : i \in 1..Len(loaded)})
     IN  per_attempt_pct' =
           [i \in 1..Len(loaded) |->
              AttemptPercentages(script, loaded[i], max_range)]
  /\ pc' = "plot_done"
  /\ UNCHANGED <<config, summary, loaded, game, attempt_counts,
                 attempts_needed, locals, outcomes>>

NextPlot ==
  \/ LoadResults
  \/ PrintSummary
  \/ CreateHistogramPlot

SpecPlot == InitPlot /\ [][NextPlot]_vars

(***************************************************************************)
(* The runs of one game, in which the script keeps running: a step that    *)
(* can be taken is taken. baseline.py faces the texts of CoreReplies.      *)
(***************************************************************************)
InitOneGame ==
  /\ Init
  /\ NUM_GAMES = 1
  /\ script = "baseline" => vocabulary = CoreReplies

FairSpec == InitOneGame /\ [][Next]_vars /\ WF_vars(Next)

(***************************************************************************)
(* What the claims speak of, read off the state.                           *)
(***************************************************************************)
\* The class of a reply text: its text lowered and trimmed is 'correct',
\* 'not correct' or anything else. None is no reply.
Class(r) ==
  IF r = NoneText THEN "NONE"
  ELSE IF strip(lower(r)) = T_correct THEN "AFFIRMATIVE"
  ELSE IF strip(lower(r)) = T_not_correct THEN "NEGATIVE"
  ELSE "MALFORMED"

IsAssistant(t) == t.role = "assistant"
IsGuessTurn(t) == t.role = "user" /\ t.content \notin {T_setup, T_correction}
IsCorrectionTurn(t) == t.role = "user" /\ t.content = T_correction

AssistantTurns == SelectSeq(conversation, IsAssistant)

\* The replies of this game to guesses and corrections, in order.
GameReplies ==
  LET a == AssistantTurns
  IN  [i \in 1..(Len(a) - 1) |-> a[i + 1].content]

\* The guesses sent in this game, in order, as sent.
GuessesSent ==
  LET g == SelectSeq(conversation, IsGuessTurn)
  IN  [i \in 1..Len(g) |-> g[i].content]

CorrectionsSent == Len(SelectSeq(conversation, IsCorrectionTurn))

\* A gateway call of this game failed: it raised (no reply came back) or, in
\* baseline.py, came back as None.
GatewayFailed ==
  LET a == AssistantTurns
  IN  \/ calls > Len(a)
      \/ \E i \in 1..Len(a) : a[i].content = NoneText

Returned == pc \in {"record", "loop", "summary", "done"} /\ game >= 1

\* The replies so far are k-1 NEGATIVE ones, then an AFFIRMATIVE one, then
\* whatever followed.
NegativesThenAffirmative(k) ==
  /\ Len(GameReplies) >= k
  /\ \A i \in 1..(k - 1) : Class(GameReplies[i]) = "NEGATIVE"
  /\ Class(GameReplies[k]) = "AFFIRMATIVE"

FirstSuccessAt(k) ==
  /\ Len(GameReplies) = k
  /\ calls = k + 1
  /\ Len(GuessesSent) = k
  /\ pc # "crashed"
  /\ (pc = "valid" =>
        ENABLED ReturnAttempts /\ ~ENABLED Repair /\ ~ENABLED NextGuess)
  /\ (Returned => attempts_needed = k)

(***************************************************************************)
(* C1: if the responder answers NEGATIVE to guesses 1..k-1 and             *)
(* AFFIRMATIVE to guess k, with no malformed reply, play_single_game       *)
(* returns exactly k and sends no further guess and makes no further       *)
(* gateway call after that reply.                                          *)
(***************************************************************************)
C1_ReturnsFirstAffirmative ==
  \A k \in 1..NUMBER_RANGE : NegativesThenAffirmative(k) => FirstSuccessAt(k)

\* The same in the two scripts that trim the reply.
C1_InTrimmingScripts ==
  script # "baseline" => C1_ReturnsFirstAffirmative

\* The same in baseline.py for replies that carry no surrounding whitespace.
C1_BaselineUnpadded ==
  (script = "baseline" /\ \A i \in 1..Len(GameReplies) :
                             strip(GameReplies[i]) = GameReplies[i])
    => C1_ReturnsFirstAffirmative

(***************************************************************************)
(* C2: if the responder answers NEGATIVE to every guess, play_single_game  *)
(* (of run_game.py and run_simulation.py) sends exactly N guesses, the     *)
(* whole permutation, then returns None; it never returns an attempt       *)
(* count, never raises, enters no REPAIR and never ends before the N-th    *)
(* guess has been answered.                                                *)
(***************************************************************************)
AllNegative ==
  \A i \in 1..Len(GameReplies) : Class(GameReplies[i]) = "NEGATIVE"

WholePermutation == [i \in 1..NUMBER_RANGE |-> str(guess_sequence[i])]

C2_AlwaysNegativeExhausts ==
  (script \in {"run_game", "run_simulation"} /\ game >= 1 /\ AllNegative
     /\ ~GatewayFailed)
    => /\ pc # "crashed"
       /\ repairs = 0
       /\ CorrectionsSent = 0
       /\ (pc = "valid" =>
             ENABLED NextGuess /\ ~ENABLED ReturnAttempts /\ ~ENABLED Repair)
       /\ (pc = "while" /\ Len(GuessesSent) < NUMBER_RANGE =>
             ENABLED Guess /\ ~ENABLED Exhausted)
       /\ (pc = "while" /\ Len(GuessesSent) = NUMBER_RANGE =>
             ENABLED Exhausted /\ ~ENABLED Guess)
       /\ (Returned =>
             /\ attempts_needed = None
             /\ GuessesSent = WholePermutation
             /\ Len(GameReplies) = NUMBER_RANGE
             /\ calls = NUMBER_RANGE + 1)

C2_Witness ==
  /\ script = "run_game"
  /\ pc = "record"
  /\ NUMBER_RANGE >= 2
  /\ AllNegative
  /\ ~GatewayFailed
  /\ attempts_needed = None
  /\ Len(GuessesSent) = NUMBER_RANGE

(***************************************************************************)
(* C3: REPAIR does not consume a guess-sequence slot: the attempt counter  *)
(* and the index into the guess sequence are unchanged by REPAIR           *)
(* iterations (the counter is the number of guesses sent, the guesses sent *)
(* are the first entries of the permutation), and a responder that gives   *)
(* m >= 1 MALFORMED replies and then AFFIRMATIVE on the first guess        *)
(* yields attempt count 1.                                                 *)
(***************************************************************************)
MalformedThenAffirmative(m) ==
  /\ Len(GameReplies) >= m + 1
  /\ \A i \in 1..m : Class(GameReplies[i]) = "MALFORMED"
  /\ Class(GameReplies[m + 1]) = "AFFIRMATIVE"

CounterIsGuessesSent ==
  guess_sequence # <<>> =>
    /\ attempts = Len(GuessesSent)
    /\ attempts <= Len(guess_sequence)
    /\ \A i \in 1..attempts : GuessesSent[i] = str(guess_sequence[i])

C3_RepairConsumesNoSlot ==
  /\ CounterIsGuessesSent
  /\ \A m \in 1..MaxRepairs :
       MalformedThenAffirmative(m) =>
         /\ Len(GameReplies) = m + 1
         /\ attempts = 1
         /\ pc # "crashed"
         /\ (pc = "valid" => ENABLED ReturnAttempts /\ ~ENABLED Repair)
         /\ (Returned => attempts_needed = 1)

\* The same in the two scripts that trim the reply.
C3_InTrimmingScripts ==
  script # "baseline" => C3_RepairConsumesNoSlot

\* The frame part, in every script: a REPAIR iteration changes neither the
\* attempt counter nor the guess sequence.
C3_RepairFrame ==
  [][repairs' = repairs + 1 =>
       attempts' = attempts /\ guess_sequence' = guess_sequence]_vars

(***************************************************************************)
(* C4: in every driver script a reply is classified by exact equality      *)
(* after trimming whitespace and lowering case: AFFIRMATIVE (success) iff  *)
(* the normalized text is 'correct', NEGATIVE (next guess) iff it is       *)
(* 'not correct', MALFORMED (REPAIR) otherwise.                            *)
(***************************************************************************)
C4_ClassifiesByNormalizedEquality ==
  (pc = "valid" /\ response # NoneText) =>
    /\ Class(response) = "AFFIRMATIVE"
         <=> (IsValid(script, response) /\ IsCorrect(script, response))
    /\ Class(response) = "NEGATIVE"
         <=> (IsValid(script, response) /\ ~IsCorrect(script, response))
    /\ Class(response) = "MALFORMED" <=> ~IsValid(script, response)

\* The same in the two scripts that trim the reply.
C4_InTrimmingScripts ==
  script # "baseline" => C4_ClassifiesByNormalizedEquality

(***************************************************************************)
(* C5: a reply whose normalized text is 'not correct' never ends a game as *)
(* SUCCESS: in every driver script it is treated as NEGATIVE, the game     *)
(* goes on to the loop test (next guess or EXHAUSTED) and no REPAIR is     *)
(* entered for it.                                                         *)
(***************************************************************************)
C5_NotCorrectIsNegative ==
  (pc = "valid" /\ Class(response) = "NEGATIVE") =>
    /\ ~ENABLED ReturnAttempts
    /\ ENABLED NextGuess
    /\ ~ENABLED Repair

\* The same in the two scripts that trim the reply.
C5_InTrimmingScripts ==
  script # "baseline" => C5_NotCorrectIsNegative

\* The safety part, in every script: such a reply never ends the game as
\* SUCCESS.
C5_NeverSuccess ==
  (pc = "valid" /\ Class(response) = "NEGATIVE") => ~ENABLED ReturnAttempts

(***************************************************************************)
(* C6: the driver never advances to the next guess and never returns       *)
(* while the most recent reply to the current guess is MALFORMED: the only *)
(* step it takes is one REPAIR iteration, which appends exactly one        *)
(* correction turn, makes exactly one gateway call and appends that reply  *)
(* (the game is abandoned only if that call fails); REPAIR is left only    *)
(* when the latest reply classifies as AFFIRMATIVE or NEGATIVE.            *)
(***************************************************************************)
OneRepairIteration ==
  /\ repairs' = repairs + 1
  /\ calls' = calls + 1
  /\ attempts' = attempts
  /\ guess_sequence' = guess_sequence
  /\ attempts_needed' = attempts_needed
  /\ attempt_counts' = attempt_counts
  /\ \/ /\ pc' = "valid"
        /\ conversation' =
             conversation \o <<Turn("user", T_correction),
                               Turn("assistant", response')>>
     \/ /\ pc' = "crashed"
        /\ GatewayRaises(script)
        /\ conversation' = Append(conversation, Turn("user", T_correction))

C6_RepairUntilConforming ==
  [][/\ (pc = "valid" /\ Class(response) = "MALFORMED") => OneRepairIteration
     /\ (repairs' # repairs /\ game' = game) => OneRepairIteration
     /\ (pc = "valid" /\ pc' \in {"while", "record"}) =>
          /\ Class(response) \in {"AFFIRMATIVE", "NEGATIVE"}
          /\ conversation' = conversation
          /\ calls' = calls]_vars

C6_Witness ==
  /\ pc = "record"
  /\ repairs >= 2
  /\ CorrectionsSent = repairs
  /\ attempts_needed # None
  /\ attempts_needed >= 2

(***************************************************************************)
(* C7: in every game the guess sequence is a permutation of 1..N made for  *)
(* that game and consumed strictly in order: the guess sent at attempt k   *)
(* is entry k, the guesses sent so far are pairwise distinct values of     *)
(* 1..N, none skipped, none repeated, and an EXHAUSTED game has guessed    *)
(* every value of 1..N exactly once.                                       *)
(***************************************************************************)
IsPermutation(seq, n) ==
  /\ Len(seq) = n
  /\ \A v \in 1..n : Cardinality({i \in 1..n : seq[i] = v}) = 1

DecimalTexts == {str(v) : v \in 1..NUMBER_RANGE}

C7_GuessesFollowPermutation ==
  /\ pc = "setup" => guess_sequence = <<>> /\ GuessesSent = <<>>
  /\ guess_sequence # <<>> =>
       LET sent == GuessesSent
       IN  /\ IsPermutation(guess_sequence, NUMBER_RANGE)
           /\ Len(sent) = attempts
           /\ attempts <= NUMBER_RANGE
           /\ \A i \in 1..Len(sent) : sent[i] = str(guess_sequence[i])
           /\ \A i, j \in 1..Len(sent) : i # j => sent[i] # sent[j]
           /\ \A i \in 1..Len(sent) : sent[i] \in DecimalTexts
           /\ (pc = "record" /\ attempts_needed = None) =>
                /\ Len(sent) = NUMBER_RANGE
                /\ {sent[i] : i \in 1..Len(sent)} = DecimalTexts

C7_Witness ==
  /\ pc = "record"
  /\ attempts_needed = None
  /\ NUMBER_RANGE >= 2
  /\ guess_sequence[1] # 1
  /\ repairs >= 1

(***************************************************************************)
(* C8: whenever play_single_game ends in SUCCESS the returned attempt      *)
(* count a satisfies 1 <= a <= N, whatever the responder does; the bucket  *)
(* index a-1 used by the runner is within 0..N-1, never negative, and the  *)
(* runner's indexing never fails.                                          *)
(***************************************************************************)
C8_AttemptCountInRange ==
  /\ (pc = "record" /\ attempts_needed # None) =>
       /\ attempts_needed \in 1..NUMBER_RANGE
       /\ attempts_needed - 1 \in 0..(Len(attempt_counts) - 1)
  /\ \A i \in 1..Len(outcomes) :
       outcomes[i] # None => outcomes[i] \in 1..NUMBER_RANGE
  /\ pc = "crashed" => GatewayFailed

C8_Witness ==
  /\ pc = "record"
  /\ NUMBER_RANGE >= 2
  /\ attempts_needed = NUMBER_RANGE
  /\ repairs >= 1

(***************************************************************************)
(* C9 as amended: the histogram changes only in the runner step between    *)
(* games: after SUCCESS with attempt count a exactly bucket a is           *)
(* incremented by one and every other bucket is unchanged; after EXHAUSTED *)
(* no bucket changes and nothing else is counted (the scripts keep no      *)
(* failure counter: games_failed is derived after the loop); no step       *)
(* inside a game changes any bucket.                                       *)
(***************************************************************************)
\* NUM_GAMES - sum(attempt_counts), the only count of failed games the
\* scripts compute.
GamesFailed == NUM_GAMES - SumSeq(attempt_counts)

OnlyBucket(a) ==
  attempt_counts' =
    [i \in 1..Len(attempt_counts) |->
       IF i = a THEN attempt_counts[i] + 1 ELSE attempt_counts[i]]

C9_HistogramChangesOnlyOnRecord ==
  [][/\ pc \notin {"config", "record"} => attempt_counts' = attempt_counts
     /\ (pc = "record" /\ attempts_needed # None) => OnlyBucket(attempts_needed)
     /\ (pc = "record" /\ attempts_needed = None) =>
          /\ attempt_counts' = attempt_counts
          /\ GamesFailed' = GamesFailed
          /\ game' = game]_vars

\* C9 as claimed: ... after EXHAUSTED no bucket changes and a separate
\* failure counter is incremented.
C9_FailureCounterIncremented ==
  [][/\ pc \notin {"config", "record"} => attempt_counts' = attempt_counts
     /\ (pc = "record" /\ attempts_needed # None) => OnlyBucket(attempts_needed)
     /\ (pc = "record" /\ attempts_needed = None) =>
          /\ attempt_counts' = attempt_counts
          /\ GamesFailed' = GamesFailed + 1]_vars

C9_Witness ==
  /\ pc = "loop"
  /\ Len(outcomes) = 2
  /\ outcomes[1] = None
  /\ outcomes[2] = 2
  /\ attempt_counts = <<0, 1>>

(***************************************************************************)
(* C10: after any number g of finished games, 0 <= g <= NUM_GAMES, the sum *)
(* of all bucket counts equals g minus the number of those games that      *)
(* ended EXHAUSTED; the sum never exceeds the number of games run and      *)
(* every bucket is non-negative.                                           *)
(***************************************************************************)
NumExhausted(seq) == Cardinality({i \in 1..Len(seq) : seq[i] = None})

\* The games whose result the runner has recorded: all that returned, less
\* the one that has returned and waits for the runner's step.
Recorded ==
  IF pc = "record" THEN SubSeq(outcomes, 1, Len(outcomes) - 1) ELSE outcomes

C10_SumIsGamesMinusExhausted ==
  /\ Len(Recorded) <= NUM_GAMES
  /\ SumSeq(attempt_counts) = Len(Recorded) - NumExhausted(Recorded)
  /\ SumSeq(attempt_counts) <= Len(Recorded)
  /\ \A i \in 1..Len(attempt_counts) : attempt_counts[i] >= 0
  /\ pc \in {"loop", "summary"} => Len(Recorded) = game

C10_Witness ==
  /\ pc = "summary"
  /\ Len(outcomes) = 2
  /\ NumExhausted(outcomes) = 1
  /\ SumSeq(attempt_counts) = 1

(***************************************************************************)
(* C11: after all games, for every attempt index i in 1..N the i-th        *)
(* cumulative percentage equals 100 x (sum of the bucket counts of the     *)
(* indices <= i) / NUM_GAMES, the denominator being the configured game    *)
(* count and not the number of games that succeeded; N = 3 and outcomes    *)
(* [1, EXHAUSTED, 2, 2] give histogram [1, 2, 0] and cumulative            *)
(* percentages [25, 75, 75].                                               *)
(***************************************************************************)
RatEq(a, b) == a[1] * b[2] = b[1] * a[2]

PrefixSum(seq, i) == SumSeq(SubSeq(seq, 1, i))

ExampleOutcomes == <<1, None, 2, 2>>
ExamplePercentages == <<25, 75, 75>>

C11_CumulativePercentage ==
  /\ \A i \in 1..Len(cumulative_percentage) :
       RatEq(cumulative_percentage[i],
             <<100 * PrefixSum(attempt_counts, i), NUM_GAMES>>)
  /\ pc = "done" =>
       /\ Len(cumulative_percentage) = NUMBER_RANGE
       /\ results.cumulative_percentage = cumulative_percentage
       /\ (NUMBER_RANGE = 3 /\ outcomes = ExampleOutcomes) =>
            /\ attempt_counts = <<1, 2, 0>>
            /\ \A i \in 1..3 :
                 RatEq(cumulative_percentage[i], <<ExamplePercentages[i], 1>>)

C11_Witness ==
  /\ pc = "done"
  /\ NUMBER_RANGE = 3
  /\ outcomes = ExampleOutcomes
  /\ Len(results.cumulative_percentage) = 3

(***************************************************************************)
(* C12: the result record written by every driver script at the end of a   *)
(* run carries games_completed equal to the number of games that ended in  *)
(* SUCCESS and games_failed equal to the number that ended EXHAUSTED, with *)
(* games_completed + games_failed = num_games, alongside api_provider,     *)
(* model, timestamp, number_range, num_games, attempt_counts (one integer  *)
(* per attempt index 1..N) and cumulative_percentage (same length N).      *)
(***************************************************************************)
RecordFields ==
  {"api_provider", "model", "timestamp", "number_range", "num_games",
   "attempt_counts", "cumulative_percentage", "games_completed",
   "games_failed"}

NumSuccess(seq) == Cardinality({i \in 1..Len(seq) : seq[i] # None})

RecordAsSpecified ==
  /\ DOMAIN results = RecordFields
  /\ results.games_completed = NumSuccess(outcomes)
  /\ results.games_failed = NumExhausted(outcomes)
  /\ results.games_completed + results.games_failed = results.num_games
  /\ results.api_provider = API_PROVIDER
  /\ results.number_range = NUMBER_RANGE
  /\ results.num_games = NUM_GAMES
  /\ Len(results.attempt_counts) = NUMBER_RANGE
  /\ \A i \in 1..NUMBER_RANGE : results.attempt_counts[i] \in Nat
  /\ Len(results.cumulative_percentage) = NUMBER_RANGE

C12_RecordInEveryScript == pc = "done" => RecordAsSpecified

\* C12 in run_game.py and run_simulation.py.
C12_InProviderScripts ==
  (pc = "done" /\ script # "baseline") => RecordAsSpecified

\* baseline.py writes six of the nine fields.
C12_BaselineRecord ==
  (pc = "done" /\ script = "baseline") =>
    /\ DOMAIN results =
         RecordFields \ {"api_provider", "games_completed", "games_failed"}
    /\ results.attempt_counts = attempt_counts
    /\ results.num_games = NUM_GAMES

(***************************************************************************)
(* C13: when a gateway call fails (during setup, a guess or a REPAIR       *)
(* iteration), the failure is fatal to the game in progress and is         *)
(* propagated: no reply or classification is substituted for the failed    *)
(* call, no further turn is appended, no further gateway call is made in   *)
(* that game, and no histogram bucket is incremented for it. This holds in *)
(* every driver script.                                                    *)
(***************************************************************************)
FailureIsFatal ==
  /\ pc = "crashed"
  /\ ~ENABLED Next
  /\ \A i \in 1..Len(AssistantTurns) : AssistantTurns[i].content # NoneText
  /\ calls = Len(AssistantTurns) + 1
  /\ conversation[Len(conversation)].role = "user"
  /\ Len(outcomes) = game - 1
  /\ attempt_counts = Histogram(outcomes, NUMBER_RANGE)

C13_GatewayFailureIsFatal == GatewayFailed => FailureIsFatal

\* C13 in run_game.py and run_simulation.py.
C13_InRaisingScripts ==
  (GatewayFailed /\ script # "baseline") => FailureIsFatal

\* baseline.py: the failed call comes back as None, which is appended as an
\* assistant turn; after a failed setup call the game goes on guessing.
C13_BaselineSubstitutesNone ==
  (GatewayFailed /\ script = "baseline") =>
    /\ \E i \in 1..Len(AssistantTurns) : AssistantTurns[i].content = NoneText
    /\ calls = Len(AssistantTurns)

(***************************************************************************)
(* C14: a game that ends EXHAUSTED is recorded as a failed game and does   *)
(* not abort the runner: the runner goes on to start every remaining game, *)
(* so exactly NUM_GAMES games are started in a run without transport       *)
(* failures, whatever mix of SUCCESS and EXHAUSTED outcomes occurs.        *)
(***************************************************************************)
RecordAndGoOn ==
  /\ Record
  /\ pc' = "loop"
  /\ attempt_counts' = attempt_counts

C14_ExhaustedDoesNotAbort ==
  /\ (pc = "record" /\ attempts_needed = None) =>
       /\ ENABLED RecordAndGoOn
       /\ ~ENABLED (Record /\ pc' # "loop")
  /\ (pc = "loop" /\ game < NUM_GAMES) => ENABLED StartGame
  /\ pc = "crashed" => GatewayFailed
  /\ game <= NUM_GAMES
  /\ pc \in {"summary", "done"} =>
       /\ game = NUM_GAMES
       /\ Len(outcomes) = NUM_GAMES
       /\ NUM_GAMES - SumSeq(attempt_counts) = NumExhausted(outcomes)

C14_Witness ==
  /\ pc = "done"
  /\ NUM_GAMES = 2
  /\ outcomes[1] = None
  /\ outcomes[2] = 1
  /\ ~GatewayFailed

(***************************************************************************)
(* C15: if the configured provider identifier is not one of the known      *)
(* ones, or the credential of the selected provider is missing, the script *)
(* stops with an error at startup before the first game: no setup turn is  *)
(* sent, no gateway call is made, no histogram bucket changes and no       *)
(* result record is written.                                               *)
(***************************************************************************)
ProviderUnknown ==
  CASE script = "run_game" ->
         API_PROVIDER \notin {"openai", "anthropic", "google", "control"}
    [] script = "run_simulation" -> API_PROVIDER \notin {"openai", "anthropic"}
    [] script = "baseline" -> FALSE

CredentialMissing ==
  /\ API_PROVIDER \in {"openai", "anthropic", "google"}
  /\ credential # "set"

C15_ConfigErrorStopsAtStartup ==
  /\ (ProviderUnknown \/ CredentialMissing) =>
       /\ pc \in {"config", "config_error"}
       /\ pc = "config" => ENABLED (Startup /\ pc' = "config_error")
       /\ pc = "config" => ~ENABLED (Startup /\ pc' # "config_error")
       /\ pc = "config_error" => ~ENABLED Next
       /\ game = 0
       /\ conversation = <<>>
       /\ calls = 0
       /\ attempt_counts = <<>>
       /\ outcomes = <<>>
       /\ results = NoResults
  /\ pc = "config_error" => (ProviderUnknown \/ CredentialMissing)

C15_Witness ==
  /\ pc = "config_error"
  /\ ~ProviderUnknown
  /\ credential = "unset"

(***************************************************************************)
(* C16: no mutable state other than the histogram is shared across games:  *)
(* apart from the histogram, no variable written during game g is still    *)
(* live (readable with the value game g left) when game g+1 starts, for    *)
(* every provider mode including the 'control' stand-in responder.         *)
(***************************************************************************)
\* play_single_game has just been entered for a game after the first.
LaterGameStarts == pc = "setup" /\ game >= 2

FreshGameState ==
  /\ conversation = <<Turn("user", T_setup)>>
  /\ guess_sequence = <<>>
  /\ attempts = 0
  /\ response = NoneText
  /\ local_CONTROL_NUMBER = Unbound
  /\ CONTROL_NUMBER = Unbound

C16_NoStateSharedAcrossGames == LaterGameStarts => FreshGameState

\* C16 for the remote providers.
C16_InRemoteModes ==
  (LaterGameStarts /\ API_PROVIDER # "control") => FreshGameState

\* Control mode: the secret of the previous game is still in the global when
\* the next game starts; the setup call then draws a new one, any of 1..N,
\* without reading the old one.
C16_ControlSecretSurvives ==
  (LaterGameStarts /\ API_PROVIDER = "control") =>
    /\ CONTROL_NUMBER \in 1..NUMBER_RANGE
    /\ \A n \in 1..NUMBER_RANGE : ENABLED (Setup /\ CONTROL_NUMBER' = n)

(***************************************************************************)
(* C17: the conversation is append-only within a game and private to it:   *)
(* every game starts from a conversation holding exactly one user setup    *)
(* turn, each step only appends turns at the end (no turn is ever removed, *)
(* reordered or rewritten), and no turn of game g appears in the           *)
(* conversation of game g+1.                                               *)
(***************************************************************************)
IsPrefix(a, b) == Len(a) <= Len(b) /\ SubSeq(b, 1, Len(a)) = a

InGame == pc \in {"setup", "while", "valid"}

C17_ConversationAppendOnly ==
  [][/\ InGame => IsPrefix(conversation, conversation')
     /\ (InGame /\ conversation' # conversation) =>
          /\ Len(conversation') \in {Len(conversation) + 1, Len(conversation) + 2}
          /\ game' = game
     /\ (pc = "loop" /\ pc' = "setup") =>
          /\ game' = game + 1
          /\ conversation' = <<Turn("user", T_setup)>>
     /\ (~InGame /\ pc' # "setup") => conversation' = conversation]_vars

C17_Witness ==
  /\ game = 2
  /\ pc = "valid"
  /\ repairs = 1
  /\ Len(conversation) = 6
  /\ conversation[1] = Turn("user", T_setup)

(***************************************************************************)
(* C18: SETUP makes exactly one gateway call before any guess, appends the *)
(* reply as an assistant turn without classifying it, and always proceeds  *)
(* to GUESSING with the attempt counter at 0: whatever the text of the     *)
(* setup reply (including 'correct', 'not correct' or arbitrary text) it   *)
(* neither ends the game, nor triggers REPAIR, nor changes which guess is  *)
(* sent first.                                                             *)
(***************************************************************************)
\* The setup call returned a reply.
SetupReturned ==
  /\ pc = "setup"
  /\ Len(conversation') = 2
  /\ conversation'[2].role = "assistant"
  /\ conversation'[2].content # NoneText

\* At SETUP with a remote responder, every setup reply goes with every
\* guess sequence.
SetupReplyIsFree ==
  (pc = "setup" /\ API_PROVIDER # "control") =>
    \A r \in SetupReplies : \A p \in Shuffles(NUMBER_RANGE) :
      ENABLED (/\ Setup
               /\ conversation' = Append(conversation, Turn("assistant", r))
               /\ guess_sequence' = p
               /\ pc' = "while")

GuessingNotBegun ==
  (pc = "while" /\ attempts = 0) =>
    /\ calls = 1
    /\ Len(conversation) = 2
    /\ GuessesSent = <<>>
    /\ repairs = 0
    /\ ENABLED Guess

C18_SetupReplyNotClassified ==
  /\ []SetupReplyIsFree
  /\ []GuessingNotBegun
  /\ [][SetupReturned =>
          /\ pc' = "while"
          /\ conversation' = Append(conversation, conversation'[2])
          /\ attempts' = 0
          /\ calls' = 1
          /\ repairs' = 0
          /\ response' = response
          /\ guess_sequence' \in Shuffles(NUMBER_RANGE)
          /\ game' = game
          /\ outcomes' = outcomes
          /\ attempt_counts' = attempt_counts]_vars

C18_Witness ==
  /\ pc = "valid"
  /\ attempts = 1
  /\ AssistantTurns[1].content = T_correct
  /\ NUMBER_RANGE = 2
  /\ GuessesSent = <<str(2)>>

(***************************************************************************)
(* C19: REPAIR has no iteration cap: against a responder that answers      *)
(* every turn with a MALFORMED reply, the game never reaches SUCCESS or    *)
(* EXHAUSTED, the attempt counter stays at 1 forever while the             *)
(* conversation grows by one correction turn and one reply per iteration,  *)
(* and the runner never starts the next game.                              *)
(***************************************************************************)
\* Every reply of this game to a guess or a correction was MALFORMED.
AllMalformed ==
  LET replies == GameReplies
  IN  /\ Len(replies) >= 1
      /\ \A i \in 1..Len(replies) : Class(replies[i]) = "MALFORMED"

\* One more REPAIR iteration answered with a MALFORMED reply.
MalformedRepair ==
  /\ Repair
  /\ Class(response') = "MALFORMED"
  /\ conversation' =
       conversation \o <<Turn("user", T_correction), Turn("assistant", response')>>
  /\ attempts' = attempts
  /\ pc' = "valid"

C19_RepairHasNoCap ==
  (AllMalformed /\ ~GatewayFailed) =>
    /\ pc = "valid"
    /\ attempts = 1
    /\ Len(GuessesSent) = 1
    /\ Len(GameReplies) = repairs + 1
    /\ CorrectionsSent = repairs
    /\ Len(conversation) = 4 + 2 * repairs
    /\ Len(outcomes) = game - 1
    /\ ~ENABLED ReturnAttempts
    /\ ~ENABLED NextGuess
    /\ ~ENABLED Exhausted
    /\ ~ENABLED StartGame
    /\ ~ENABLED Record
    /\ repairs < MaxRepairs => ENABLED MalformedRepair

C19_Witness ==
  /\ AllMalformed
  /\ ~GatewayFailed
  /\ repairs = 2
  /\ Len(conversation) = 8

(***************************************************************************)
(* C20: each game runs to completion: provided every gateway call returns  *)
(* and, for each guess, the responder gives a conforming reply after       *)
(* finitely many MALFORMED ones, play_single_game eventually reaches       *)
(* SUCCESS or EXHAUSTED after at most N guesses, and these are its only    *)
(* terminal outcomes.                                                      *)
(***************************************************************************)
\* The claim's provisos fail: a gateway call did not return a reply, or the
\* responder is still MALFORMED after every REPAIR iteration explored.
ProvisoFails ==
  \/ GatewayFailed
  \/ pc = "valid" /\ Class(response) = "MALFORMED" /\ repairs = MaxRepairs

GameEnded ==
  /\ pc = "record"
  /\ attempts_needed \in (1..NUMBER_RANGE) \cup {None}
  /\ Len(GuessesSent) <= NUMBER_RANGE
  /\ attempts_needed = None => Len(GuessesSent) = NUMBER_RANGE

OnlyTerminalOutcomes ==
  /\ InGame => Len(GuessesSent) <= NUMBER_RANGE
  /\ pc = "record" => GameEnded
  /\ pc = "crashed" => GatewayFailed
  /\ (InGame /\ ~ENABLED Next) => ProvisoFails

C20_GameRunsToCompletion ==
  /\ []((script \in {"run_game", "run_simulation"}) => OnlyTerminalOutcomes)
  /\ (script \in {"run_game", "run_simulation"} /\ pc = "setup")
       ~> (GameEnded \/ ProvisoFails)

C20_Witness ==
  /\ script = "run_simulation"
  /\ pc = "record"
  /\ attempts_needed = 2
  /\ repairs = 2
  /\ ~GatewayFailed

(***************************************************************************)
(* C21: the final aggregate is order-independent: for any sequence of game *)
(* outcomes (attempt counts and EXHAUSTED) and any reordering of that      *)
(* sequence, the runner produces the same histogram, the same cumulative   *)
(* percentages and the same completed and failed counts.                   *)
(***************************************************************************)
\* The histogram the experiment loop builds from the outcomes outs, taken in
\* their order, starting from n zeros.
RECURSIVE RunnerHistogram(_, _)
RunnerHistogram(outs, n) ==
  IF outs = <<>> THEN [i \in 1..n |-> 0]
  ELSE LET before == RunnerHistogram(SubSeq(outs, 1, Len(outs) - 1), n)
           a == outs[Len(outs)]
       IN  IF a # None THEN Increment(before, a - 1) ELSE before

\* The summary the script computes from a histogram.
CumulativeOf(counts, n) ==
  [i \in 1..Len(counts) |-> Percent(PrefixSum(counts, i), n)]

Reorder(outs, p) == [i \in 1..Len(outs) |-> outs[p[i]]]

C21_AggregateOrderIndependent ==
  pc = "done" =>
    \A p \in Shuffles(Len(outcomes)) :
      LET h == RunnerHistogram(Reorder(outcomes, p), NUMBER_RANGE)
      IN  /\ h = attempt_counts
          /\ CumulativeOf(h, NUM_GAMES) = cumulative_percentage
          /\ SumSeq(h) = NumSuccess(outcomes)
          /\ NUM_GAMES - SumSeq(h) = NumExhausted(outcomes)
          /\ h = results.attempt_counts
          /\ CumulativeOf(h, NUM_GAMES) = results.cumulative_percentage

C21_Witness ==
  /\ pc = "done"
  /\ outcomes = <<2, 1>>
  /\ attempt_counts = <<1, 1>>

(***************************************************************************)
(* C22: the result record is created and written exactly once per run, and *)
(* only after all NUM_GAMES games have reached a terminal state; the       *)
(* histogram and cumulative percentages it contains are those of that      *)
(* final state and nothing changes them after the record is created.       *)
(***************************************************************************)
\* The files of the results directory this run has written.
OwnFiles == {f \in store : f.content = results}

RecordOfFinalState ==
  /\ game = NUM_GAMES
  /\ Len(outcomes) = NUM_GAMES
  /\ results.attempt_counts = attempt_counts
  /\ results.cumulative_percentage = cumulative_percentage
  /\ Len(results.cumulative_percentage) = NUMBER_RANGE
  /\ results.attempt_counts = RunnerHistogram(outcomes, NUMBER_RANGE)
  /\ Cardinality(OwnFiles) = 1

C22_RecordWrittenOnceAtEnd ==
  /\ [](results = NoResults => store = {})
  /\ [](results # NoResults => (pc = "done" /\ RecordOfFinalState))
  /\ [][/\ (results' # results \/ store' # store) =>
            /\ results = NoResults
            /\ store = {}
            /\ pc = "summary"
            /\ attempt_counts' = attempt_counts
            /\ cumulative_percentage' = cumulative_percentage
        /\ results # NoResults =>
            /\ results' = results
            /\ store' = store
            /\ attempt_counts' = attempt_counts
            /\ cumulative_percentage' = cumulative_percentage]_vars

C22_Witness ==
  /\ pc = "done"
  /\ NUM_GAMES = 2
  /\ NUMBER_RANGE = 2
  /\ Cardinality(store) = 1
  /\ results.attempt_counts = <<0, 1>>

(***************************************************************************)
(* C23 as amended: the file name is derived from the provider identifier   *)
(* (baseline.py has none), the normalized model identifier and a time      *)
(* stamp of one-second resolution; a run writes to the file name of an     *)
(* earlier run exactly when both are runs of the same script with the same *)
(* provider, hence the same model, and write within the same second, and   *)
(* then the later record replaces the earlier one; in every other case the *)
(* names differ and both records are kept.                                 *)
(***************************************************************************)
\* The files earlier runs left in the results directory.
EarlierFiles == {f \in store : f.content # results}

SameRun(f, s, p, t) ==
  /\ f.by.script = s
  /\ f.by.provider = p
  /\ f.by.second = t

C23_CollisionOnlyInSameSecond ==
  [][(pc = "summary" /\ pc' = "done") =>
       \E g \in store' :
         /\ g.content = results'
         /\ g.by.script = script
         /\ g.by.provider = API_PROVIDER
         /\ g.name = Filename(script, API_PROVIDER, g.by.second)
         /\ results'.timestamp = Timestamp(g.by.second)
         /\ \A f \in store :
              /\ f.name = g.name
                   <=> SameRun(f, script, API_PROVIDER, g.by.second)
              /\ f.name = g.name <=> f \notin store']_vars

\* C23 as claimed: two distinct runs never write their record to the same
\* file name, so no run's record overwrites another's.
C23_NoCollisionAcrossRuns ==
  [][(pc = "summary" /\ pc' = "done") =>
       /\ store \subseteq store'
       /\ Cardinality(store') = Cardinality(store) + 1
       /\ \A f, g \in store' : f.name = g.name => f = g]_vars

C23_Witness ==
  /\ pc = "done"
  /\ script = "run_game"
  /\ API_PROVIDER = "control"
  /\ Cardinality(store) = 1
  /\ EarlierFiles = {}

(***************************************************************************)
(* C24.  The histogram tool tolerates both shapes of attempt_counts: for a *)
(* stored record whose attempt_counts is a mapping from the attempt index  *)
(* (a string key) to the count, loading, summary printing and the          *)
(* per-attempt percentage computation complete without error and yield the *)
(* same per-attempt percentages as for the list-shaped record of the same  *)
(* histogram.                                                              *)
(***************************************************************************)
IsMappingShaped(rec) == rec.attempt_counts.shape = "dict"

\* The list-shaped record of the same histogram.
AsListShaped(rec) ==
  [rec EXCEPT !.attempt_counts =
     ListShaped([k \in 1..Len(rec.attempt_counts.items) |->
                   rec.attempt_counts.items[k].value])]

PlotRange ==
  MaxOf({InferRange(script, loaded[i]) : i \in 1..Len(loaded)})

SamePercentagesAsList ==
  \A i \in 1..Len(loaded) :
    IsMappingShaped(loaded[i]) =>
      /\ Len(per_attempt_pct) = Len(loaded)
      /\ per_attempt_pct[i] =
           AttemptPercentages(script, AsListShaped(loaded[i]), PlotRange)

\* C24: a mapping-shaped record never makes the tool fail, and the
\* percentages plotted for it are those of the list-shaped record.
C24_ToolToleratesBothShapes ==
  /\ pc # "plot_crashed"
  /\ pc = "plot_done" => SamePercentagesAsList

\* C24, in plot_histograms.py: the claim holds there.
C24_InPlotHistograms ==
  script = "plot_histograms" => C24_ToolToleratesBothShapes

\* C24, in plot_histogram.py: a mapping-shaped record of at least one game
\* over a non-empty range stops the tool in print_summary.
C24_PlotHistogramFails ==
  (/\ script = "plot_histogram"
   /\ pc \in {"plot_crashed", "plot_chart", "plot_done"})
    => (pc = "plot_crashed" <=>
          \E i \in 1..Len(loaded) : IsMappingShaped(loaded[i]))

C24_Witness ==
  /\ script = "plot_histograms"
  /\ pc = "plot_done"
  /\ \E i \in 1..Len(loaded) :
       /\ IsMappingShaped(loaded[i])
       /\ "number_range" \notin DOMAIN loaded[i]
       /\ \E k \in 1..Len(per_attempt_pct[i]) : per_attempt_pct[i][k][1] > 0

(***************************************************************************)
(* C25.  In the control mode the responder's secret number is assigned     *)
(* only when it processes the setup turn and is not changed by any guess   *)
(* or correction turn of the game (the assignment inside the guess loop of *)
(* play_single_game does not affect it); every control game ends in        *)
(* SUCCESS, never EXHAUSTED, never enters REPAIR, and its attempt count is *)
(* the position of the secret in the game's guess permutation.             *)
(***************************************************************************)
ControlMode == API_PROVIDER = "control"

ControlGameSucceeds ==
  /\ pc # "crashed"
  /\ repairs = 0
  /\ pc = "valid" => IsValid(script, response)
  /\ \A i \in 1..Len(outcomes) : outcomes[i] \in 1..NUMBER_RANGE
  /\ pc \in {"while", "valid", "record"} => CONTROL_NUMBER \in 1..NUMBER_RANGE
  /\ pc = "record" =>
       /\ attempts_needed \in 1..NUMBER_RANGE
       /\ guess_sequence[attempts_needed] = CONTROL_NUMBER
       /\ \A k \in 1..(attempts_needed - 1) : guess_sequence[k] # CONTROL_NUMBER

C25_ControlSecretSetOnlyAtSetup ==
  /\ [](ControlMode => ControlGameSucceeds)
  /\ [][ControlMode =>
         /\ pc # "setup" => CONTROL_NUMBER' = CONTROL_NUMBER
         /\ pc = "setup" => CONTROL_NUMBER' \in 1..NUMBER_RANGE]_vars

C25_Witness ==
  /\ ControlMode
  /\ pc = "record"
  /\ game = 2
  /\ attempts_needed = 2
  /\ local_CONTROL_NUMBER = None
  /\ CONTROL_NUMBER = guess_sequence[2]

(***************************************************************************)
(* C26.  In a run of run_game.py or run_simulation.py a gateway failure in *)
(* game g ends the whole experiment, not only game g: games g+1..num_games *)
(* are never started, the outcomes of games 1..g-1 already in the          *)
(* histogram are never persisted, and no result record is written.         *)
(***************************************************************************)
RaisingScript == script \in {"run_game", "run_simulation"}

ExperimentEnded ==
  /\ pc = "crashed"
  /\ game \in 1..NUM_GAMES
  /\ Len(outcomes) = game - 1
  /\ SumSeq(attempt_counts) = Cardinality({i \in 1..Len(outcomes) : outcomes[i] # None})
  /\ ~ENABLED StartGame
  /\ ~ENABLED Record
  /\ ~ENABLED EndLoop
  /\ ~ENABLED SummaryStep
  /\ ~ENABLED WriteResults
  /\ cumulative_percentage = <<>>
  /\ results = NoResults
  /\ store = {}

C26_FailureEndsExperiment ==
  /\ (RaisingScript /\ GatewayFailed) => ExperimentEnded
  /\ (RaisingScript /\ (results # NoResults \/ store # {})) =>
       /\ Len(outcomes) = NUM_GAMES
       /\ game = NUM_GAMES

C26_Witness ==
  /\ RaisingScript
  /\ GatewayFailed
  /\ pc = "crashed"
  /\ game = 1
  /\ NUM_GAMES = 2
  /\ store = {}

\* A failure in a later game: the successes already counted are lost.
C26_WitnessLaterGame ==
  /\ RaisingScript
  /\ GatewayFailed
  /\ pc = "crashed"
  /\ game = 2
  /\ SumSeq(attempt_counts) = 1
  /\ store = {}

(***************************************************************************)
(* C27.  At every gateway call of a game the conversation passed has odd   *)
(* length, its turns strictly alternate user, assistant, user, ...         *)
(* starting and ending with a user turn, and it contains no system turn;   *)
(* between two consecutive user turns exactly one assistant reply is       *)
(* appended.                                                               *)
(***************************************************************************)
Alternates(conv) ==
  /\ Len(conv) % 2 = 1
  /\ \A i \in 1..Len(conv) :
       conv[i].role = IF i % 2 = 1 THEN "user" ELSE "assistant"

CorrectionSent == Append(conversation, Turn("user", T_correction))

\* The conversation a call step passed, read from the state after it: the
\* reply, if one came back, is the one turn appended after it.
PassedBy(conv) ==
  IF conv # <<>> /\ conv[Len(conv)].role = "assistant"
  THEN SubSeq(conv, 1, Len(conv) - 1)
  ELSE conv

C27_CallsSeeAlternatingTurns ==
  /\ [](/\ pc = "setup" => Alternates(conversation)
        /\ (pc = "while" /\ LoopTest(attempts, guess_sequence))
             => Alternates(GuessSent)
        /\ (pc = "valid" /\ ENABLED Repair) => Alternates(CorrectionSent))
  /\ [][calls' = calls + 1 =>
         /\ Alternates(PassedBy(conversation'))
         /\ PassedBy(conversation') =
              (IF pc = "setup" THEN conversation
               ELSE IF pc = "while" THEN GuessSent
               ELSE CorrectionSent)
         /\ Len(conversation') <= Len(PassedBy(conversation')) + 1]_vars

C27_Witness ==
  /\ script \in {"run_game", "run_simulation"}
  /\ pc = "valid"
  /\ attempts = 2
  /\ repairs = 1
  /\ ENABLED Repair
  /\ Len(CorrectionSent) = 9

(***************************************************************************)
(* C28.  In baseline.py the two-step decision (membership of the lowered   *)
(* reply in {'correct', 'not correct'} to leave REPAIR, then the substring *)
(* test "'correct' in r and 'not correct' not in r" for success) gives,    *)
(* for every reply that leaves REPAIR, the same outcome as the exact       *)
(* equality r == 'correct'; so for every sequence of replies free of       *)
(* leading and trailing whitespace, baseline.py and run_game.py reach the  *)
(* same terminal outcome with the same attempt count and the same number   *)
(* of REPAIR iterations.                                                   *)
(***************************************************************************)
Trimmed(r) == r # NoneText /\ strip(r) = r

\* play_single_game of script s from the top of the guess loop, fed the
\* replies in order: a guesses were sent and k REPAIR iterations made so far;
\* judging says that the reply to the last guess or correction is awaited.
RECURSIVE Replay(_, _, _, _, _, _)
Replay(s, replies, n, a, k, judging) ==
  IF ~judging
  THEN IF a < n
       THEN Replay(s, replies, n, a + 1, k, TRUE)
       ELSE [outcome |-> None, attempts |-> a, repairs |-> k, left |-> Len(replies)]
  ELSE IF replies = <<>>
       THEN [outcome |-> Unbound, attempts |-> a, repairs |-> k, left |-> 0]
       ELSE IF ~IsValid(s, Head(replies))
       THEN Replay(s, Tail(replies), n, a, k + 1, TRUE)
       ELSE IF IsCorrect(s, Head(replies))
       THEN [outcome |-> a, attempts |-> a, repairs |-> k,
             left |-> Len(replies) - 1]
       ELSE Replay(s, Tail(replies), n, a, k, FALSE)

PlayOn(s, replies) == Replay(s, replies, NUMBER_RANGE, 0, 0, FALSE)

C28_BaselineDecidesAsRunGame ==
  /\ (/\ script = "baseline"
      /\ pc = "valid"
      /\ response # NoneText
      /\ IsValid("baseline", response))
       => (IsCorrect("baseline", response) <=> lower(response) = T_correct)
  /\ pc = "record" =>
       LET replies == GameReplies
           played == PlayOn("baseline", replies)
       IN  (\A i \in 1..Len(replies) : Trimmed(replies[i]))
             => /\ played = PlayOn("run_game", replies)
                /\ played =
                     [outcome |-> attempts_needed, attempts |-> attempts,
                      repairs |-> repairs, left |-> 0]

C28_Witness ==
  /\ script = "baseline"
  /\ pc = "record"
  /\ attempts_needed = 2
  /\ repairs = 1
  /\ GameReplies = <<T_Not_Correct, T_correct_bang, T_correct>>

(***************************************************************************)
(* C29.  For every run that reaches the summary, the cumulative percentage *)
(* sequence has length N, is non-decreasing in the attempt index, lies in  *)
(* [0, 100], and its last entry equals 100 x games_completed / num_games,  *)
(* so it is below 100 exactly when at least one game ended EXHAUSTED.      *)
(***************************************************************************)
RatLe(a, b) == a[1] * b[2] <= b[1] * a[2]

GamesCompleted == Cardinality({g \in 1..Len(outcomes) : outcomes[g] # None})

SummaryComplete ==
  pc \in {"summary", "done"} /\ ~ENABLED SummaryStep

C29_CumulativeSequenceShape ==
  /\ Len(cumulative_percentage) <= NUMBER_RANGE
  /\ \A i \in 1..Len(cumulative_percentage) :
       /\ cumulative_percentage[i][2] > 0
       /\ RatLe(<<0, 1>>, cumulative_percentage[i])
       /\ RatLe(cumulative_percentage[i], <<100, 1>>)
  /\ \A i, j \in 1..Len(cumulative_percentage) :
       i <= j => RatLe(cumulative_percentage[i], cumulative_percentage[j])
  /\ SummaryComplete =>
       /\ Len(cumulative_percentage) = NUMBER_RANGE
       /\ RatEq(cumulative_percentage[NUMBER_RANGE],
                <<100 * GamesCompleted, NUM_GAMES>>)
       /\ ~RatEq(cumulative_percentage[NUMBER_RANGE], <<100, 1>>)
            <=> (\E g \in 1..Len(outcomes) : outcomes[g] = None)
  /\ pc = "done" => results.cumulative_percentage = cumulative_percentage

C29_Witness ==
  /\ pc = "done"
  /\ NUMBER_RANGE = 3
  /\ NUM_GAMES = 4
  /\ GamesCompleted = 3
  /\ ~RatEq(cumulative_percentage[1], cumulative_percentage[2])
  /\ RatEq(cumulative_percentage[2], cumulative_percentage[3])
  /\ ~RatEq(cumulative_percentage[3], <<100, 1>>)

=============================================================================
